---- MODULE Spec2Model ----
(***************************************************************************)
(* Model of the chunking-and-batched-ingestion pipeline of rag_chatbot:    *)
(* utils.chunk_text, utils.iter_text_files, ingestion._gen_chunks,         *)
(* ingestion._deterministic_id, ingestion._embed_batch,                    *)
(* ingestion._upsert_vectors and ingestion.ingest_path.                    *)
(*                                                                         *)
(* A Python str is a sequence of one-character strings.                    *)
(***************************************************************************)
EXTENDS Integers, Sequences, FiniteSets, TLC

VARIABLES
    \* ---- chunker harness: chunk_text and _gen_chunks on one input
    c_in,        \* [text, size, overlap]: the arguments of both chunkers
    ct,          \* frame of utils.chunk_text
    gen,         \* frame of a consumer of ingestion._gen_chunks
    \* ---- _deterministic_id harness
    idq,         \* two argument triples and their digests
    \* ---- batching harness
    bq,          \* utils.batched and the batch-pulling loop on one input
    \* ---- ingest_path
    fs,          \* the filesystem: [root, kind, entries, text]
    settings,    \* [chunk_size, chunk_overlap]
    batch_size,  \* the batch_size argument of the current run
    pc,          \* position in ingest_path
    files,       \* list(iter_text_files(path))
    file_i,      \* index in files of the file being processed (1-based)
    source,      \* str(p)
    chunk_iter,  \* the _gen_chunks generator of the current file
    batch_index, \* batch_index of the current file
    batch,       \* the batch pulled last
    embeddings,  \* what _embed_batch returned for the batch
    vectors,     \* the records built for the batch
    attempts,    \* `attempts` of the running retry loop
    index,       \* the vector index: id -> record (upsert by id)
    run,         \* 1 in the first ingest_path run, 2 in a re-run
    hist         \* observation of the run, for the properties only

vars == << c_in, ct, gen, idq, bq, fs, settings, batch_size, pc, files, file_i,
           source, chunk_iter, batch_index, batch, embeddings, vectors,
           attempts, index, run, hist >>

chunkVars == << c_in, ct, gen >>
ingestVars == << fs, settings, batch_size, pc, files, file_i, source,
                 chunk_iter, batch_index, batch, embeddings, vectors,
                 attempts, index, run, hist >>

----------------------------------------------------------------------------
\* Bounds of the model

\* longest text given to the chunker harness (besides ScenarioText)
MaxTextLen == 4
\* largest chunk_size / chunk_overlap given to the chunker harness
MaxSize == 4
\* loop iterations of chunk_text that are followed before the run is cut
MaxSteps == 12
\* longest document of the ingest model
MaxDocLen == 2
\* largest settings.chunk_size of the ingest model
MaxChunkSize == 2
\* largest batch_size of the ingest model
MaxBatch == 2
\* longest input and largest batch_size of the batching harness
MaxItems == 4
MaxGroup == 3
\* longest source string, longest chunk and largest ordinal of the id harness
MaxSourceLen == 2
MaxIdChunkLen == 2
MaxIdx == 11

----------------------------------------------------------------------------
\* Python built-ins used by the code

Min(a, b) == IF a < b THEN a ELSE b
Max(a, b) == IF a > b THEN a ELSE b

\* ceil(a / b) for a >= 0, b > 0
CeilDiv(a, b) == (a + b - 1) \div b

\* s[lo:hi] for 0 <= lo, on a sequence
Slice(s, lo, hi) == SubSeq(s, lo + 1, Min(hi, Len(s)))

\* all sequences over S of length <= n
SeqsUpTo(S, n) == UNION { [1..k -> S] : k \in 0..n }

IsSpace(c) == c \in {" ", "\n", "\t"}

RECURSIVE LStrip(_)
LStrip(s) == IF s # << >> /\ IsSpace(Head(s)) THEN LStrip(Tail(s)) ELSE s

RECURSIVE RStrip(_)
RStrip(s) ==
    IF s # << >> /\ IsSpace(s[Len(s)]) THEN RStrip(SubSeq(s, 1, Len(s) - 1))
    ELSE s

\* str.strip()
Strip(s) == RStrip(LStrip(s))

DigitChar == << "0", "1", "2", "3", "4", "5", "6", "7", "8", "9" >>

\* str(n) of a natural number, as f"{n}" formats it
RECURSIVE Digits(_)
Digits(n) ==
    IF n < 10 THEN << DigitChar[n + 1] >>
    ELSE Digits(n \div 10) \o << DigitChar[(n % 10) + 1] >>

----------------------------------------------------------------------------
\* utils.chunk_text, one loop iteration per step

chunk_text_start == [pc |-> "check", start |-> 0, chunks |-> << >>,
                   spans |-> << >>, steps |-> 0]

\* the two validations at the head of chunk_text
chunk_text_check(f, size, overlap) ==
    IF size <= 0 \/ overlap >= size
    THEN [f EXCEPT !.pc = "raised"]
    ELSE [f EXCEPT !.pc = "loop"]

\* the value of `start` at the end of an iteration that cut [start, end)
chunk_text_advance(end, overlap) ==
    LET s1 == end - overlap
        s2 == IF s1 < 0 THEN 0 ELSE s1
    IN  IF s2 = end THEN s2 + 1 ELSE s2

\* one evaluation of `while start < text_length` and of the loop body
chunk_text_iter(f, text, size, overlap) ==
    IF f.start < Len(text)
    THEN LET end   == Min(f.start + size, Len(text))
             chunk == Strip(Slice(text, f.start, end))
         IN  [f EXCEPT !.chunks = IF chunk # << >> THEN Append(@, chunk) ELSE @,
                       !.spans  = Append(@, << f.start, end >>),
                       !.start  = chunk_text_advance(end, overlap),
                       !.steps  = @ + 1]
    ELSE [f EXCEPT !.pc = "done"]

----------------------------------------------------------------------------
\* ingestion._gen_chunks: a generator object and its next()

DefaultGenSize == 800

GenSize(size) == IF size <= 0 THEN DefaultGenSize ELSE size
GenOverlap(overlap) == IF overlap < 0 THEN 0 ELSE overlap
GenStep(size, overlap) == Max(1, GenSize(size) - GenOverlap(overlap))

\* _gen_chunks(text, size, overlap): the generator before its first next()
_gen_chunks(text, size, overlap) ==
    [text |-> text, size |-> GenSize(size), step |-> GenStep(size, overlap),
     start |-> 0]

\* next(g) raises StopIteration iff range(0, len(text), step) is used up
GenExhausted(g) == g.start >= Len(g.text)
\* the value next(g) yields
GenYield(g) == Slice(g.text, g.start, g.start + g.size)
\* the generator after that next(g)
GenAdvance(g) == [g EXCEPT !.start = @ + g.step]

----------------------------------------------------------------------------
\* ingestion._deterministic_id

US == "\\x1f"           \* the unit separator character
Surrogate == "\\ud800"  \* a lone surrogate, as in the str of a non-UTF-8 file name

\* s.encode("utf-8", "ignore"): characters with no encoding are dropped
EncodeIgnore(s) == SelectSeq(s, LAMBDA c : c # Surrogate)

\* the text hashed: f"{source}\x1f{idx}\x1f{len(chunk_text)}"
IdPayload(src, chunk_text, idx) ==
    src \o << US >> \o Digits(idx) \o << US >> \o Digits(Len(chunk_text))

\* sha256(...).hexdigest(), the hash taken as injective on the bytes it is fed
Sha256Hex(bytes) == << "sha256", bytes >>

_deterministic_id(src, chunk_text, idx) ==
    Sha256Hex(EncodeIgnore(IdPayload(src, chunk_text, idx)))

----------------------------------------------------------------------------
\* Values of the variables a specification does not use

IdleChunk == [text |-> << >>, size |-> 1, overlap |-> 0]
IdleFrame == [pc |-> "idle"]
IdleFs == [kind |-> "idle"]
IdleSettings == [chunk_size |-> 1, chunk_overlap |-> 0]

ChunkIdle == c_in = IdleChunk /\ ct = IdleFrame /\ gen = IdleFrame
IdIdle == idq = IdleFrame
BatchIdle == bq = IdleFrame
IngestIdle ==
    /\ fs = IdleFs /\ settings = IdleSettings /\ batch_size = 1
    /\ pc = "idle" /\ files = << >> /\ file_i = 0 /\ source = << >>
    /\ chunk_iter = IdleFrame /\ batch_index = 0 /\ batch = << >>
    /\ embeddings = << >> /\ vectors = << >> /\ attempts = 0
    /\ index = << >> /\ run = 0 /\ hist = IdleFrame

----------------------------------------------------------------------------
\* Chunker harness: chunk_text and a consumer of _gen_chunks run on the same
\* (text, chunk_size, chunk_overlap)

\* the scenario text of the specification, "ABCDEFGHIJ"
ScenarioText == << "A", "B", "C", "D", "E", "F", "G", "H", "I", "J" >>

ChunkTexts == SeqsUpTo({"a", " "}, MaxTextLen) \cup {ScenarioText}

ChunkInit ==
    /\ c_in \in [text : ChunkTexts, size : 0..MaxSize, overlap : (-1)..MaxSize]
    /\ ct = chunk_text_start
    /\ gen = [pc |-> "iter", g |-> _gen_chunks(c_in.text, c_in.size, c_in.overlap),
              chunks |-> << >>, spans |-> << >>, steps |-> 0]
    /\ IdIdle /\ BatchIdle /\ IngestIdle

\* chunk_text(text, chunk_size, chunk_overlap) is entered: the validations
ChunkTextCall ==
    /\ ct.pc = "check"
    /\ ct' = chunk_text_check(ct, c_in.size, c_in.overlap)
    /\ UNCHANGED << c_in, gen, idq, bq, ingestVars >>

\* one iteration of the while loop of chunk_text (or its exit)
ChunkTextLoop ==
    /\ ct.pc = "loop"
    /\ ct.steps < MaxSteps
    /\ ct' = chunk_text_iter(ct, c_in.text, c_in.size, c_in.overlap)
    /\ UNCHANGED << c_in, gen, idq, bq, ingestVars >>

\* one next() on the generator: a chunk, or StopIteration
GenNext ==
    /\ gen.pc = "iter"
    /\ gen' = IF GenExhausted(gen.g)
              THEN [gen EXCEPT !.pc = "done"]
              ELSE [gen EXCEPT !.g = GenAdvance(@),
                               !.chunks = Append(@, GenYield(gen.g)),
                               !.spans = Append(@, << gen.g.start,
                                   Min(gen.g.start + gen.g.size, Len(gen.g.text)) >>),
                               !.steps = @ + 1]
    /\ UNCHANGED << c_in, ct, idq, bq, ingestVars >>

ChunkNext == ChunkTextCall \/ ChunkTextLoop \/ GenNext

SpecChunk == ChunkInit /\ [][ChunkNext]_vars

----------------------------------------------------------------------------
\* _deterministic_id harness: two calls whose arguments differ in at most one
\* of source, chunk text and ordinal

IdSources == SeqsUpTo({"a", US, Surrogate}, MaxSourceLen)
IdChunks == SeqsUpTo({"a", "b"}, MaxIdChunkLen)
IdArgs == [source : IdSources, chunk : IdChunks, idx : 0..MaxIdx]

IdInit ==
    /\ \E a \in IdArgs, b \in IdArgs :
          /\ \/ (a.chunk = b.chunk /\ a.idx = b.idx)
             \/ (a.source = b.source /\ a.idx = b.idx)
             \/ (a.source = b.source /\ a.chunk = b.chunk)
          /\ idq = [pc |-> "call", a |-> a, b |-> b,
                    da |-> << >>, db |-> << >>]
    /\ ChunkIdle /\ BatchIdle /\ IngestIdle

IdCompute ==
    /\ idq.pc = "call"
    /\ idq' = [idq EXCEPT
                 !.pc = "done",
                 !.da = _deterministic_id(idq.a.source, idq.a.chunk, idq.a.idx),
                 !.db = _deterministic_id(idq.b.source, idq.b.chunk, idq.b.idx)]
    /\ UNCHANGED << chunkVars, bq, ingestVars >>

IdNext == IdCompute

SpecId == IdInit /\ [][IdNext]_vars

----------------------------------------------------------------------------
\* utils.iter_text_files on a modelled filesystem
\*   fs.kind    "missing", "file" or "dir": what the root path is
\*   fs.root    the root path
\*   fs.entries what root.rglob("*") finds under a directory root
\*   fs.isfile  entry -> whether Path.is_file() holds of it
\*   fs.text    file -> its decoded text

SUPPORTED_EXTENSIONS ==
    { << ".", "t", "x", "t" >>, << ".", "m", "d" >>,
      << ".", "m", "a", "r", "k", "d", "o", "w", "n" >> }

\* str.lower() on the characters file names are made of
LowerChar(c) ==
    CASE c = "T" -> "t" [] c = "X" -> "x" [] c = "M" -> "m" [] c = "D" -> "d"
      [] OTHER -> c
Lower(s) == [i \in 1..Len(s) |-> LowerChar(s[i])]

\* code points, the order sorted() compares paths by
CodePoint(c) ==
    CASE c = "." -> 46 [] c = "/" -> 47 [] c = "D" -> 68 [] c = "M" -> 77
      [] c = "T" -> 84 [] c = "X" -> 88 [] c = "a" -> 97 [] c = "b" -> 98
      [] c = "c" -> 99 [] c = "d" -> 100 [] c = "f" -> 102 [] c = "m" -> 109
      [] c = "p" -> 112 [] c = "s" -> 115 [] c = "t" -> 116 [] c = "x" -> 120
      [] OTHER -> 0

\* p < q: at the first position where they differ p is the smaller, or p is
\* a proper prefix of q
PathLess(p, q) ==
    \E k \in 1..(Min(Len(p), Len(q)) + 1) :
       /\ \A j \in 1..(k - 1) : p[j] = q[j]
       /\ IF k > Len(p) THEN k <= Len(q)
          ELSE k <= Len(q) /\ CodePoint(p[k]) < CodePoint(q[k])

\* sorted(S) of a set of paths
Sorted(S) ==
    [i \in 1..Cardinality(S) |->
        CHOOSE x \in S : Cardinality({ y \in S : PathLess(y, x) }) = i - 1]

\* the largest i with s[i] = c, or 0
LastIndexOf(s, c) ==
    LET I == { i \in 1..Len(s) : s[i] = c }
    IN  IF I = {} THEN 0 ELSE CHOOSE i \in I : \A j \in I : j <= i

\* Path.name: the final component
PathName(p) == SubSeq(p, LastIndexOf(p, "/") + 1, Len(p))

\* Path.suffix: from the last dot of the name, unless that dot leads or ends it
Suffix(p) ==
    LET name == PathName(p)
        i    == LastIndexOf(name, ".")
    IN  IF 1 < i /\ i < Len(name) THEN SubSeq(name, i, Len(name)) ELSE << >>

\* mutant: any extension is taken
SupportedAny(p) == Suffix(p) # << >>

\* `file.suffix.lower() in SUPPORTED_EXTENSIONS`
Supported(p) == Lower(Suffix(p)) \in SUPPORTED_EXTENSIONS

\* list(iter_text_files(path)): the files found, or the error raised
iter_text_files(f) ==
    IF f.kind = "missing"
    THEN [raised |-> "FileNotFoundError", files |-> << >>]
    ELSE IF f.kind = "file"
    THEN [raised |-> "none",
          files |-> IF Supported(f.root) THEN << f.root >> ELSE << >>]
    ELSE [raised |-> "none",
          files |-> Sorted({ e \in f.entries : f.isfile[e] /\ Supported(e) })]

----------------------------------------------------------------------------
\* The remote services, by the interface the pipeline uses

\* the vector the embedding service returns for one input string
Embedding(chunk) == << "vec", chunk >>

\* client.embeddings.create(model, input).data on success: one item per
\* input, in input order
EmbeddingsCreate(inputs) ==
    [i \in 1..Len(inputs) |-> [embedding |-> Embedding(inputs[i])]]

\* the record index.upsert leaves under id: the last one of `vecs` with that id
LastWithId(vecs, id) ==
    LET i == CHOOSE k \in 1..Len(vecs) :
                 /\ vecs[k].id = id
                 /\ \A j \in (k + 1)..Len(vecs) : vecs[j].id # id
    IN  [values |-> vecs[i].values, metadata |-> vecs[i].metadata]

\* index.upsert(vectors, namespace) on success: create or replace by id
IndexUpsert(idx, vecs) ==
    LET ids == { vecs[k].id : k \in 1..Len(vecs) }
    IN  [id \in (DOMAIN idx) \cup ids |->
            IF id \in ids THEN LastWithId(vecs, id) ELSE idx[id]]

----------------------------------------------------------------------------
\* ingestion.ingest_path and the retry loops it runs

\* `if attempts > 5: raise`
MaxRetries == 5
\* the multiplier of batch_index in the ordinal given to _deterministic_id
BatchStride == 10000

\* mutant: the loop runs once too often (`range(batch_size + 1)`)
RECURSIVE PullBatchInclusive(_, _, _)
PullBatchInclusive(g, n, acc) ==
    IF n < 0 \/ GenExhausted(g) THEN [batch |-> acc, g |-> g]
    ELSE PullBatchInclusive(GenAdvance(g), n - 1, Append(acc, GenYield(g)))

\* the `for _ in range(batch_size)` loop: next() until the batch is full or
\* the generator stops
RECURSIVE PullBatch(_, _, _)
PullBatch(g, n, acc) ==
    IF n <= 0 \/ GenExhausted(g) THEN [batch |-> acc, g |-> g]
    ELSE PullBatch(GenAdvance(g), n - 1, Append(acc, GenYield(g)))

\* zip(batch, embeddings): pairs up to the shorter of the two
Zip(a, b) == [i \in 1..Min(Len(a), Len(b)) |-> << a[i], b[i] >>]

\* mutant: the ordinal is the position inside the batch only
OrdinalInBatch(i, bi) == i

\* the ordinal of the chunk at position i (0-based) of batch number bi
Ordinal(i, bi) == i + (bi * BatchStride)

\* mutant: the embeddings are paired with the chunks in reverse order
BuildVectorsMisaligned(src, b, embs, bi) ==
    LET n == Min(Len(b), Len(embs))
    IN  [k \in 1..n |->
            [id |-> _deterministic_id(src, b[k], Ordinal(k - 1, bi)),
             values |-> embs[n + 1 - k],
             metadata |-> [source |-> src, chunk |-> b[k]]]]

\* the list comprehension building the records of a batch
BuildVectors(src, b, embs, bi) ==
    LET z == Zip(b, embs)
    IN  [k \in 1..Len(z) |->
            [id |-> _deterministic_id(src, z[k][1], Ordinal(k - 1, bi)),
             values |-> z[k][2],
             metadata |-> [source |-> src, chunk |-> z[k][1]]]]

\* mutant: the retry budget is one short (`attempts >= 5`)
RetriesExhaustedEarly(n) == n >= MaxRetries

\* `attempts += 1; if attempts > 5: raise`: whether the failure is re-raised
RetriesExhausted(n) == n > MaxRetries

\* mutant: batch_index advances only past a batch that was not dropped
NextBatchIndexOnSuccess(bi) ==
    IF hist.last.outcome = "raised" THEN bi ELSE bi + 1

\* `batch_index += 1`, run for every non-empty batch pulled
NextBatchIndex(bi) == bi + 1

\* mutant: a failed read ends the run
ReadErrorPropagates == "raised"
\* `except Exception: print; continue` around read_text: on to the next file
AfterReadError == "file"

\* time.sleep(0.12) after a batch is upserted, in hundredths of a second
BatchPause == 12

\* mutant: no except clause around the batch, the error leaves ingest_path
BatchErrorPropagates == "raised"

\* where ingest_path goes on after a retry loop re-raised: the except clause
\* of the batch ends in `continue`, the next round of `while True`
AfterBatchError == "pull"

\* hundredths of a second _sleep_backoff(attempt) sleeps: min(cap, base * 2^attempt)
BackoffBase == 40
BackoffCap == 600
\* mutant: the cap is not applied
SleepBackoffUncapped(attempt) == BackoffBase * (2 ^ attempt)
_sleep_backoff(attempt) == Min(BackoffCap, BackoffBase * (2 ^ attempt))

----------------------------------------------------------------------------
\* The inputs of ingest_path

FileA == << "a", ".", "m", "d" >>
FileB == << "b", ".", "T", "X", "T" >>
FilePdf == << "c", ".", "p", "d", "f" >>
\* a directory whose name ends in .md
SubDir == << "s", ".", "m", "d" >>
RootDir == << "d" >>
InDir(name) == RootDir \o << "/" >> \o name

DocTexts == SeqsUpTo({"a", " "}, MaxDocLen)
OtherTexts == { [i \in 1..k |-> "b"] : k \in 0..MaxDocLen }
Absent == << "absent" >>

MissingFs ==
    [kind |-> "missing", root |-> RootDir, entries |-> {}, isfile |-> << >>,
     text |-> << >>]

FileFs(p, t) ==
    [kind |-> "file", root |-> p, entries |-> {}, isfile |-> << >>,
     text |-> (p :> t)]

\* a directory holding c.pdf, the directory s.md and, unless Absent, a.md
\* with text ta and b.TXT with text tb
DirFs(ta, tb) ==
    LET fa == IF ta = Absent THEN {} ELSE {InDir(FileA)}
        fb == IF tb = Absent THEN {} ELSE {InDir(FileB)}
        es == fa \cup fb \cup {InDir(FilePdf), InDir(SubDir)}
    IN  [kind |-> "dir", root |-> RootDir, entries |-> es,
         isfile |-> [e \in es |-> e # InDir(SubDir)],
         text |-> [e \in fa \cup fb |-> IF e = InDir(FileA) THEN ta ELSE tb]]

SingleFileSystems == { FileFs(FileA, t) : t \in DocTexts }

FileSystems ==
    {MissingFs} \cup SingleFileSystems \cup {FileFs(FilePdf, << "a" >>)}
    \cup { DirFs(ta, tb) : ta \in DocTexts \cup {Absent},
                           tb \in OtherTexts \cup {Absent} }

\* settings that pass the validation of chunk_text
ValidSettings ==
    { st \in [chunk_size : 1..MaxChunkSize, chunk_overlap : 0..MaxChunkSize] :
        st.chunk_overlap < st.chunk_size }

BatchSizes == 1..MaxBatch

----------------------------------------------------------------------------
\* Observation of a run (read by the properties, never by the program)
\*   last     the retry call (_embed_batch, _upsert_vectors) that ended in
\*            the last step, with the number of invocations it made
\*   calls    invocations of the remote operation by the running retry loop
\*   waits    the sleeps of the running retry loop
\*   index0   the index when the current batch was pulled
\*   npulled  chunks of the current file pulled so far
\*   pulled   file number -> chunks pulled from it, once it is completed
\*   skipped  numbers of the files whose read failed
\*   failed   << file number, batch_index >> of the batches dropped
\*   idOf     << file number, position of the chunk in the file >> -> the id
\*            of the record built for it
\*   sent     << file number, batch_index >> of the batches whose upsert
\*            returned
\*   error    the error ingest_path raised
\*   remote   whether an embedding or upsert call has been made in this run
\*   pause    the sleep that closed the last batch, in hundredths of a second
\*   starts   of the current file: for every batch pulled, the offsets in the
\*            text at which its chunks start
\*   nbatches file number -> batch_index when the file was completed
\*   run1     of the first run: idOf, the ids it left in the index, its
\*            batch_size, whether it read the file, whether it dropped no batch

NoLast == [fn |-> "none", outcome |-> "none", calls |-> 0]

HistStart ==
    [last |-> NoLast, calls |-> 0, waits |-> << >>, index0 |-> << >>,
     npulled |-> 0, pulled |-> << >>, skipped |-> {}, failed |-> {},
     idOf |-> << >>, sent |-> {}, error |-> "none", remote |-> FALSE,
     pause |-> 0, starts |-> << >>, nbatches |-> << >>, run1 |-> IdleFrame]

IngestInitWith(fss, sts, bss) ==
    /\ fs \in fss
    /\ settings \in sts
    /\ batch_size \in bss
    /\ pc = "call" /\ files = << >> /\ file_i = 0 /\ source = << >>
    /\ chunk_iter = IdleFrame /\ batch_index = 0 /\ batch = << >>
    /\ embeddings = << >> /\ vectors = << >> /\ attempts = 0
    /\ index = << >> /\ run = 1 /\ hist = HistStart
    /\ ChunkIdle /\ IdIdle /\ BatchIdle

Init == IngestInitWith(FileSystems, ValidSettings, BatchSizes)

\* ingest_path is entered: the clients are built and the path is scanned
Call ==
    /\ pc = "call"
    /\ LET r == iter_text_files(fs)
       IN  IF r.raised # "none"
           THEN /\ pc' = "raised"
                /\ hist' = [hist EXCEPT !.error = r.raised]
                /\ UNCHANGED << files, file_i >>
           ELSE IF r.files = << >>
           THEN /\ pc' = "raised"
                /\ hist' = [hist EXCEPT !.error = "ValueError"]
                /\ UNCHANGED << files, file_i >>
           ELSE /\ pc' = "file"
                /\ files' = r.files
                /\ file_i' = 1
                /\ UNCHANGED hist
    /\ UNCHANGED << fs, settings, batch_size, source, chunk_iter, batch_index,
                    batch, embeddings, vectors, attempts, index, run,
                    chunkVars, idq, bq >>

\* the next file of `for file in files`: read_text succeeds or raises
ReadFile ==
    /\ pc = "file"
    /\ file_i <= Len(files)
    /\ \E ok \in BOOLEAN :
          IF ok
          THEN /\ source' = files[file_i]
               /\ chunk_iter' = _gen_chunks(fs.text[files[file_i]],
                                    settings.chunk_size, settings.chunk_overlap)
               /\ batch_index' = 0
               /\ pc' = "pull"
               /\ hist' = [hist EXCEPT !.last = NoLast, !.npulled = 0,
                                       !.starts = << >>]
               /\ UNCHANGED file_i
          ELSE /\ pc' = AfterReadError
               /\ file_i' = file_i + 1
               /\ hist' = [hist EXCEPT !.last = NoLast,
                                       !.skipped = @ \cup {file_i}]
               /\ UNCHANGED << source, chunk_iter, batch_index >>
    /\ UNCHANGED << fs, settings, batch_size, files, batch, embeddings,
                    vectors, attempts, index, run, chunkVars, idq, bq >>

\* `for file in files` is used up: ingest_path returns
Return ==
    /\ pc = "file"
    /\ file_i > Len(files)
    /\ pc' = "done"
    /\ hist' = [hist EXCEPT !.last = NoLast]
    /\ UNCHANGED << fs, settings, batch_size, files, file_i, source,
                    chunk_iter, batch_index, batch, embeddings, vectors,
                    attempts, index, run, chunkVars, idq, bq >>

\* one round of `while True`: pull a batch; an empty one completes the file
Pull ==
    /\ pc = "pull"
    /\ LET r == PullBatch(chunk_iter, batch_size, << >>)
       IN  /\ chunk_iter' = r.g
           /\ batch' = r.batch
           /\ IF r.batch = << >>
              THEN /\ pc' = "file"
                   /\ file_i' = file_i + 1
                   /\ hist' = [hist EXCEPT !.last = NoLast,
                                  !.pulled = @ @@ (file_i :> hist.npulled),
                                  !.nbatches = @ @@ (file_i :> batch_index)]
                   /\ UNCHANGED << batch_index, attempts >>
              ELSE /\ pc' = "embed"
                   /\ batch_index' = NextBatchIndex(batch_index)
                   /\ attempts' = 0
                   /\ hist' = [hist EXCEPT !.last = NoLast, !.calls = 0,
                                  !.waits = << >>, !.index0 = index,
                                  !.pause = 0,
                                  !.npulled = @ + Len(r.batch),
                                  !.starts = Append(@,
                                      [j \in 1..Len(r.batch) |->
                                          chunk_iter.start
                                              + ((j - 1) * chunk_iter.step)])]
                   /\ UNCHANGED file_i
    /\ UNCHANGED << fs, settings, batch_size, files, source, embeddings,
                    vectors, index, run, chunkVars, idq, bq >>

\* the ids BuildVectors gave the chunks of the current batch, by position in
\* the file
BatchIds(vecs) ==
    LET first == hist.npulled - Len(batch)
    IN  [k \in { << file_i, first + j - 1 >> : j \in 1..Len(vecs) } |->
            vecs[k[2] - first + 1].id]

\* _embed_batch: client.embeddings.create returns; the records are built
EmbedOk ==
    /\ pc = "embed"
    /\ LET embs == [i \in 1..Len(batch) |->
                       EmbeddingsCreate(batch)[i].embedding]
           vecs == BuildVectors(source, batch, embs, batch_index)
       IN  /\ embeddings' = embs
           /\ vectors' = vecs
           /\ hist' = [hist EXCEPT
                 !.last = [fn |-> "embed", outcome |-> "returned",
                           calls |-> hist.calls + 1],
                 !.calls = 0, !.waits = << >>, !.remote = TRUE,
                 !.idOf = BatchIds(vecs) @@ @]
    /\ attempts' = 0
    /\ pc' = "upsert"
    /\ UNCHANGED << fs, settings, batch_size, files, file_i, source,
                    chunk_iter, batch_index, batch, index, run, chunkVars, idq, bq >>

\* a remote call of the running retry loop raises: retry after a sleep, or
\* re-raise into the except clause of ingest_path, which drops the batch
RetryFail(fn) ==
    /\ attempts' = attempts + 1
    /\ IF RetriesExhausted(attempts + 1)
       THEN /\ pc' = AfterBatchError
            /\ hist' = [hist EXCEPT
                  !.last = [fn |-> fn, outcome |-> "raised",
                            calls |-> hist.calls + 1],
                  !.calls = @ + 1, !.remote = TRUE,
                  !.pause = _sleep_backoff(1),
                  !.failed = @ \cup {<< file_i, batch_index >>}]
       ELSE /\ pc' = pc
            /\ hist' = [hist EXCEPT
                  !.last = NoLast,
                  !.calls = @ + 1, !.remote = TRUE,
                  !.waits = Append(@, _sleep_backoff(attempts + 1))]
    /\ UNCHANGED << fs, settings, batch_size, files, file_i, source,
                    chunk_iter, batch_index, batch, embeddings, vectors,
                    index, run, chunkVars, idq, bq >>

\* _embed_batch: client.embeddings.create raises
EmbedFail == pc = "embed" /\ RetryFail("embed")

\* _upsert_vectors: index.upsert returns; the batch is released
UpsertOk ==
    /\ pc = "upsert"
    /\ index' = IndexUpsert(index, vectors)
    /\ embeddings' = << >> /\ vectors' = << >> /\ batch' = << >>
    /\ pc' = "pull"
    /\ hist' = [hist EXCEPT
          !.last = [fn |-> "upsert", outcome |-> "returned",
                    calls |-> hist.calls + 1],
          !.calls = @ + 1, !.remote = TRUE, !.pause = BatchPause,
          !.sent = @ \cup {<< file_i, batch_index >>}]
    /\ UNCHANGED << fs, settings, batch_size, files, file_i, source,
                    chunk_iter, batch_index, attempts, run, chunkVars, idq, bq >>

\* _upsert_vectors: index.upsert raises
UpsertFail ==
    /\ pc = "upsert"
    /\ RetryFail("upsert")

Next == Call \/ ReadFile \/ Return \/ Pull \/ EmbedOk \/ EmbedFail
        \/ UpsertOk \/ UpsertFail

Spec == Init /\ [][Next]_vars

----------------------------------------------------------------------------
\* Re-ingestion: ingest_path is run a second time on the same path and
\* settings, against the index the first run left

Rerun ==
    /\ pc = "done"
    /\ run = 1
    /\ run' = 2
    /\ pc' = "call"
    /\ batch_size' \in BatchSizes
    /\ files' = << >> /\ file_i' = 0 /\ source' = << >>
    /\ chunk_iter' = IdleFrame /\ batch_index' = 0 /\ batch' = << >>
    /\ embeddings' = << >> /\ vectors' = << >> /\ attempts' = 0
    /\ hist' = [HistStart EXCEPT
          !.run1 = [pc |-> "done", idOf |-> hist.idOf, ids |-> DOMAIN index,
                    batch_size |-> batch_size,
                    read |-> hist.skipped = {}, complete |-> hist.failed = {}]]
    /\ UNCHANGED << fs, settings, index, chunkVars, idq, bq >>

InitReingest == IngestInitWith(SingleFileSystems, ValidSettings, BatchSizes)

NextReingest == Next \/ Rerun

SpecReingest == InitReingest /\ [][NextReingest]_vars

----------------------------------------------------------------------------
\* Properties

\* the number of chunks _gen_chunks yields for a text: len(range(0, L, step))
NumChunks(text, st) ==
    CeilDiv(Len(text), GenStep(st.chunk_size, st.chunk_overlap))

\* the batch_index of the batch that holds the chunk at position pos of a file
BatchOf(pos) == (pos \div batch_size) + 1

\* C1: in _embed_batch and in _upsert_vectors, a remote call that fails on
\* every attempt is invoked exactly 6 times and the error is then raised to
\* the caller; a call that succeeds is invoked between 1 and 6 times, the
\* last of them the successful one, after which the loop is left; a loop
\* still running has made at most 5 invocations.
C1_RetryBound ==
    /\ hist.last.outcome = "raised" =>
          /\ hist.last.calls = 6
          /\ attempts = 6
          /\ << file_i, batch_index >> \in hist.failed
    /\ hist.last.outcome = "returned" =>
          /\ hist.last.calls \in 1..6
          /\ hist.last.fn = "embed" => pc = "upsert" /\ hist.calls = 0
          /\ hist.last.fn = "upsert" =>
                pc = "pull" /\ hist.calls = attempts + 1
    /\ pc \in {"embed", "upsert"} => hist.calls = attempts /\ hist.calls <= 5

\* C1 witness: _upsert_vectors raised after its 6th invocation, in a batch
\* whose _embed_batch had returned
C1_Witness ==
    /\ hist.last = [fn |-> "upsert", outcome |-> "raised", calls |-> 6]
    /\ embeddings # << >>

\* C2: a batch whose embedding or upsert exhausted its retries leaves the
\* index as it was when the batch was pulled and ingest_path goes on with
\* the next round of the same file; no batch failure reaches the caller;
\* when ingest_path returns every chunk of every file that was read has
\* been pulled, no record of a dropped batch is in the index and every
\* record of every other batch is.
C2_BatchFailureContained ==
    /\ hist.last.outcome = "raised" => pc = "pull" /\ index = hist.index0
    /\ pc = "raised" =>
          /\ hist.failed = {}
          /\ hist.error \in {"FileNotFoundError", "ValueError"}
    /\ (pc = "done" /\ run = 1) =>
          /\ \A i \in 1..Len(files) :
                \/ i \in hist.skipped
                \/ /\ i \in DOMAIN hist.pulled
                   /\ hist.pulled[i] = NumChunks(fs.text[files[i]], settings)
          /\ \A k \in DOMAIN hist.idOf :
                IF << k[1], BatchOf(k[2]) >> \in hist.failed
                THEN hist.idOf[k] \notin DOMAIN index
                ELSE hist.idOf[k] \in DOMAIN index

\* C2 witness: ingest_path returned after it dropped a batch, wrote a later
\* batch of the same file and wrote a batch of a later file
C2_Witness ==
    /\ pc = "done"
    /\ \E f \in hist.failed, w \in hist.sent, v \in hist.sent :
          /\ w[1] = f[1] /\ w[2] > f[2]
          /\ v[1] > f[1]

\* C3: whenever index.upsert is about to be invoked, the embedding call of
\* that batch has returned one embedding per chunk, and the records passed
\* are one per chunk of the batch, in batch order, the i-th holding the i-th
\* chunk as metadata and the i-th returned embedding as values.
C3_UpsertAfterEmbedInOrder ==
    pc = "upsert" =>
       /\ batch # << >>
       /\ Len(embeddings) = Len(batch)
       /\ Len(vectors) = Len(batch)
       /\ \A i \in 1..Len(batch) :
             /\ embeddings[i] = EmbeddingsCreate(batch)[i].embedding
             /\ vectors[i].metadata.chunk = batch[i]
             /\ vectors[i].metadata.source = source
             /\ vectors[i].values = embeddings[i]
       /\ << file_i, batch_index >> \notin hist.failed

\* C3 witness: an upsert of a batch of two different chunks is pending
C3_Witness ==
    /\ pc = "upsert"
    /\ Len(batch) = 2
    /\ batch[1] # batch[2]

C5_IdIndependentOfBatchSize ==
    run = 2 =>
       \A k \in (DOMAIN hist.idOf) \cap (DOMAIN hist.run1.idOf) :
           hist.idOf[k] = hist.run1.idOf[k]

\* C6: _deterministic_id gives equal digests for equal arguments and
\* different digests when exactly one of source, chunk text and ordinal is
\* changed (stated here for sources every character of which has a UTF-8
\* encoding).
C6_DigestTracksEveryInput ==
    (/\ idq.pc = "done"
     /\ EncodeIgnore(idq.a.source) = idq.a.source
     /\ EncodeIgnore(idq.b.source) = idq.b.source) =>
        ((idq.da = idq.db) <=> (idq.a = idq.b))

----------------------------------------------------------------------------
\* Properties of the chunkers

\* the arguments satisfy chunk_size > 0 and 0 <= chunk_overlap < chunk_size
ValidChunking == c_in.size > 0 /\ 0 <= c_in.overlap /\ c_in.overlap < c_in.size

\* ceil(len(T) / max(1, S - O)) + 1
StepBound == CeilDiv(Len(c_in.text), Max(1, c_in.size - c_in.overlap)) + 1

\* spans that start at 0, leave no gap between consecutive spans and end at L
Covers(spans, L) ==
    /\ spans # << >>
    /\ spans[1][1] = 0
    /\ \A i \in 1..(Len(spans) - 1) : spans[i + 1][1] <= spans[i][2]
    /\ \E i \in 1..Len(spans) : spans[i][2] = L

\* every pair of consecutive spans but the last pair shares exactly O positions
OverlapExact(spans, O) ==
    \A i \in 1..(Len(spans) - 2) : spans[i][2] - spans[i + 1][1] = O

\* no span lies wholly inside the span before it
NoSpanInsidePrevious(spans) ==
    \A i \in 1..(Len(spans) - 1) : spans[i + 1][2] > spans[i][2]

\* C7: for chunk_size > 0 and 0 <= chunk_overlap < chunk_size, neither
\* chunk_text nor _gen_chunks takes more than
\* ceil(len(T) / max(1, S - O)) + 1 loop steps.
C7_StepBound ==
    ValidChunking =>
        /\ ct.pc \in {"loop", "done"} => ct.steps <= StepBound
        /\ gen.pc \in {"iter", "done"} => gen.steps <= StepBound

\* C8: for a non-empty text and valid arguments, the untrimmed spans each
\* chunker visits cover [0, len(T)) with no gap, and consecutive spans
\* overlap by exactly O characters, except possibly the pair ending in the
\* final span.
C8_SpansCoverWithOverlap ==
    (ValidChunking /\ c_in.text # << >>) =>
        /\ ct.pc = "done" =>
              /\ Covers(ct.spans, Len(c_in.text))
              /\ OverlapExact(ct.spans, c_in.overlap)
        /\ gen.pc = "done" =>
              /\ Covers(gen.spans, Len(c_in.text))
              /\ OverlapExact(gen.spans, c_in.overlap)

\* C9: on "ABCDEFGHIJ" with chunk_size 4 and chunk_overlap 1 each chunker
\* emits exactly the chunks at cursors 0, 3 and 6 and no further chunk; for
\* all valid arguments no chunk is emitted whose span lies wholly inside
\* the previous chunk's span.
C9_StopsAtEndOfText ==
    /\ (c_in.text = ScenarioText /\ c_in.size = 4 /\ c_in.overlap = 1) =>
          /\ ct.pc \in {"loop", "done"} => Len(ct.spans) <= 3
          /\ ct.pc = "done" => ct.spans = << << 0, 4 >>, << 3, 7 >>, << 6, 10 >> >>
          /\ gen.pc \in {"iter", "done"} => Len(gen.spans) <= 3
          /\ gen.pc = "done" =>
                gen.chunks = << << "A", "B", "C", "D" >>, << "D", "E", "F", "G" >>,
                                << "G", "H", "I", "J" >> >>
    /\ ValidChunking =>
          /\ ct.pc \in {"loop", "done"} => NoSpanInsidePrevious(ct.spans)
          /\ gen.pc \in {"iter", "done"} => NoSpanInsidePrevious(gen.spans)

\* C10: no chunk that is empty after trimming is emitted by a chunker or
\* handed by ingest_path to the embedding service or the index, so no batch
\* is ever pulled from a document that is all whitespace.
C10_NoBlankChunk ==
    /\ ct.pc \in {"loop", "done"} =>
          \A i \in 1..Len(ct.chunks) : Strip(ct.chunks[i]) # << >>
    /\ gen.pc \in {"iter", "done"} =>
          \A i \in 1..Len(gen.chunks) : Strip(gen.chunks[i]) # << >>
    /\ pc \in {"embed", "upsert"} =>
          /\ \A i \in 1..Len(batch) : Strip(batch[i]) # << >>
          /\ Strip(fs.text[files[file_i]]) # << >>

----------------------------------------------------------------------------
\* ingest_path under settings that chunk_text rejects

InvalidSettings ==
    { st \in [chunk_size : 0..MaxChunkSize, chunk_overlap : 0..MaxChunkSize] :
        st.chunk_size <= 0 \/ st.chunk_overlap >= st.chunk_size }

InitInvalid == IngestInitWith(SingleFileSystems, InvalidSettings, BatchSizes)

SpecInvalid == InitInvalid /\ [][Next]_vars

\* C11: with chunk_size <= 0 or chunk_overlap >= chunk_size, chunk_text
\* raises and emits no chunk, _gen_chunks yields no chunk, and ingest_path,
\* which chunks with settings.chunk_size and settings.chunk_overlap, pulls
\* no batch and so reaches neither the embedding nor the upsert call.
C11_InvalidSettingsRejected ==
    /\ (c_in.size <= 0 \/ c_in.overlap >= c_in.size) =>
          /\ ct.pc \in {"loop", "done", "raised"} =>
                ct.pc = "raised" /\ ct.chunks = << >>
          /\ gen.pc \in {"iter", "done"} => gen.chunks = << >>
    /\ (settings.chunk_size <= 0
        \/ settings.chunk_overlap >= settings.chunk_size) =>
          /\ pc \notin {"embed", "upsert"}
          /\ batch = << >>
          /\ index = << >>

\* C12: for chunk_size > 0 and 0 <= chunk_overlap < chunk_size, chunk_text
\* and _gen_chunks produce the same chunks in the same order and the same
\* number of them (stated here for texts that hold no whitespace, on which
\* trimming changes nothing).
C12_ChunkersAgree ==
    (/\ ValidChunking
     /\ \A i \in 1..Len(c_in.text) : ~IsSpace(c_in.text[i])
     /\ ct.pc \in {"loop", "done"}
     /\ gen.pc \in {"iter", "done"}) =>
            /\ \A i \in 1..Min(Len(ct.chunks), Len(gen.chunks)) :
                  ct.chunks[i] = gen.chunks[i]
            /\ gen.pc = "done" => Len(ct.chunks) <= Len(gen.chunks)
            /\ (ct.pc = "done" /\ gen.pc = "done") => ct.chunks = gen.chunks

\* ---------------------------------------------------------------------------
\* Batching: utils.batched and the batch-pulling loop of ingest_path
\* ---------------------------------------------------------------------------

\* utils.batched before its first next(): nothing consumed, nothing yielded
batched_start == [pc |-> "iter", pos |-> 0, groups |-> << >>]

\* one turn of `while True` in utils.batched: islice takes at most batch_size
\* items; an empty batch breaks, otherwise the batch is yielded
batched_next(f, items, n) ==
    LET b == Slice(items, f.pos, f.pos + n)
    IN  IF b = << >> THEN [f EXCEPT !.pc = "done"]
        ELSE [f EXCEPT !.pos = @ + Len(b), !.groups = Append(@, b)]

\* the `while True` loop of ingest_path before its first turn
pull_start(g) == [pc |-> "iter", g |-> g, batch_index |-> 0, groups |-> << >>]

\* one turn of the `while True` loop of ingest_path, the remote calls left out:
\* pull a batch, break when it is empty, otherwise count it
pull_next(f, n) ==
    LET r == PullBatch(f.g, n, << >>)
    IN  IF r.batch = << >> THEN [f EXCEPT !.pc = "done"]
        ELSE [f EXCEPT !.g = r.g,
                       !.batch_index = NextBatchIndex(@),
                       !.groups = Append(@, r.batch)]

\* the chunks a one-character, no-overlap generator yields from a string
ItemList(text) == [i \in 1..Len(text) |-> << text[i] >>]

ScenarioItems == << "1", "2", "3", "4", "5", "6", "7" >>
BatchInputs == SeqsUpTo({"x", "y"}, MaxItems) \cup {ScenarioItems}

BatchInit ==
    /\ \E text \in BatchInputs, n \in 0..MaxGroup :
          bq = [items |-> text, n |-> n,
                lib |-> batched_start,
                loop |-> pull_start(_gen_chunks(text, 1, 0))]
    /\ ChunkIdle /\ IdIdle /\ IngestIdle

BatchedNext ==
    /\ bq.lib.pc = "iter"
    /\ bq' = [bq EXCEPT !.lib = batched_next(@, ItemList(bq.items), bq.n)]
    /\ UNCHANGED << chunkVars, idq, ingestVars >>

PullNext ==
    /\ bq.loop.pc = "iter"
    /\ bq' = [bq EXCEPT !.loop = pull_next(@, bq.n)]
    /\ UNCHANGED << chunkVars, idq, ingestVars >>

NextBatch == BatchedNext \/ PullNext
SpecBatch == BatchInit /\ [][NextBatch]_vars

RECURSIVE Flatten(_)
Flatten(groups) ==
    IF groups = << >> THEN << >> ELSE Head(groups) \o Flatten(Tail(groups))

\* the groups produced so far are full batches in input order; once the loop
\* has stopped they are the whole input in ceil(N / B) groups
GroupsOf(f, list, n, consumed) ==
    /\ \A k \in 1..Len(f.groups) : Len(f.groups[k]) \in 1..n
    /\ \A k \in 1..(Len(f.groups) - 1) : Len(f.groups[k]) = n
    /\ Flatten(f.groups) = SubSeq(list, 1, consumed)
    /\ f.pc = "done" =>
          /\ consumed = Len(list)
          /\ Len(f.groups) = CeilDiv(Len(list), n)

\* C13: for a positive batch size B, utils.batched and the batch-pulling loop
\* of ingest_path both split N items into ceil(N / B) consecutive non-empty
\* groups, every group but possibly the last of size exactly B, whose
\* concatenation is the input in order; an empty input gives no group, and
\* [1..7] with B = 3 gives [[1,2,3],[4,5,6],[7]]
C13_ConsecutiveGroups ==
    (bq # IdleFrame /\ bq.n > 0) =>
        LET list == ItemList(bq.items)
        IN  /\ GroupsOf(bq.lib, list, bq.n, bq.lib.pos)
            /\ GroupsOf(bq.loop, list, bq.n, bq.loop.g.start)
            /\ bq.loop.batch_index = Len(bq.loop.groups)
            /\ (bq.lib.pc = "done" /\ bq.loop.pc = "done") =>
                  bq.lib.groups = bq.loop.groups
            /\ (bq.items = << >> /\ bq.lib.pc = "done") => bq.lib.groups = << >>
            /\ (bq.items = ScenarioItems /\ bq.n = 3 /\ bq.loop.pc = "done") =>
                  bq.loop.groups = << << <<"1">>, <<"2">>, <<"3">> >>,
                                      << <<"4">>, <<"5">>, <<"6">> >>,
                                      << << "7" >> >> >>

C13_Witness ==
    /\ bq # IdleFrame
    /\ bq.items = ScenarioItems /\ bq.n = 3
    /\ bq.lib.pc = "done" /\ bq.loop.pc = "done"
    /\ Len(bq.lib.groups) = 3 /\ Len(bq.loop.groups[3]) = 1

\* ---------------------------------------------------------------------------
\* Scanning failures

\* the root exists and nothing under it has a supported extension: the lone
\* file c.pdf, or the directory without a.md and b.TXT (it then holds c.pdf
\* and the directory s.md only)
NoSupportedFile(f) ==
    \/ f.kind = "file" /\ f.root = FilePdf
    \/ f.kind = "dir" /\ InDir(FileA) \notin f.entries
                      /\ InDir(FileB) \notin f.entries

FailedBeforeRemote(err) ==
    /\ pc = "raised"
    /\ hist.error = err
    /\ ~hist.remote
    /\ index = << >>
    /\ batch = << >> /\ vectors = << >>

\* C14: once ingest_path has scanned, a root that does not exist has raised
\* the not-found error and a root without any file of a supported extension
\* (a lone file with an unsupported extension included) has raised the
\* no-documents error, in both cases with no embedding or upsert call made;
\* with valid settings nothing else makes ingest_path raise.
C14_ScanFailureIsFatal ==
    (run = 1 /\ pc # "call") =>
        /\ fs.kind = "missing" => FailedBeforeRemote("FileNotFoundError")
        /\ NoSupportedFile(fs) => FailedBeforeRemote("ValueError")
        /\ pc = "raised" => (fs.kind = "missing" \/ NoSupportedFile(fs))

C14_Witness ==
    /\ pc = "raised"
    /\ hist.error = "ValueError"
    /\ fs.kind = "file" /\ fs.root = FilePdf
    /\ ~hist.remote

\* ---------------------------------------------------------------------------
\* Files whose read fails

\* file number i has left no trace beyond its skip notice
Untouched(i) ==
    /\ i \notin DOMAIN hist.pulled
    /\ \A k \in DOMAIN hist.idOf : k[1] # i
    /\ \A b \in hist.failed \cup hist.sent : b[1] # i

\* the id the chunk at position pos of file number i gets when the file is
\* ingested on its own
IdAlone(i, pos) ==
    LET g == _gen_chunks(fs.text[files[i]], settings.chunk_size,
                         settings.chunk_overlap)
    IN  _deterministic_id(files[i],
            Slice(g.text, pos * g.step, (pos * g.step) + g.size),
            Ordinal(pos % batch_size, BatchOf(pos)))

\* C15: a file whose read failed gets no embedding and no upsert call and no
\* record; the files are taken in scanner order, each one before the current
\* one either skipped or pulled to its end and none after it touched; a read
\* failure never makes ingest_path raise, and when it returns without a
\* dropped batch the index holds exactly the records the files that were
\* read get on their own.
C15_ReadFailureSkipsFile ==
    (run = 1 /\ pc # "call") =>
        /\ pc = "raised" => hist.skipped = {}
        /\ \A i \in hist.skipped : Untouched(i)
        /\ \A i \in 1..Len(files) :
              /\ i < file_i =>
                    \/ i \in hist.skipped
                    \/ /\ i \in DOMAIN hist.pulled
                       /\ hist.pulled[i] = NumChunks(fs.text[files[i]], settings)
              /\ i > file_i => i \notin hist.skipped /\ Untouched(i)
        /\ pc = "done" => file_i = Len(files) + 1
        /\ (pc = "done" /\ hist.failed = {}) =>
              DOMAIN index =
                 UNION { { IdAlone(i, pos) :
                           pos \in 0..(NumChunks(fs.text[files[i]], settings) - 1) } :
                         i \in (1..Len(files)) \ hist.skipped }

\* C15 witness: the read of the first of two files failed, the second file
\* was ingested and ingest_path returned
C15_Witness ==
    /\ pc = "done"
    /\ Len(files) = 2
    /\ hist.skipped = {1}
    /\ 2 \in DOMAIN hist.pulled /\ hist.pulled[2] > 0
    /\ \E w \in hist.sent : w[1] = 2
    /\ index # << >>

\* ---------------------------------------------------------------------------
\* Backoff between retries

\* min(6.0, 0.4 * 2^n) for n = 1..5, in hundredths of a second
ExpectedWaits == << 80, 160, 320, 600, 600 >>

\* C16: in both retry loops the wait after the n-th failure, n = 1..5, is
\* min(6.0, 0.4 * 2^n) seconds: 0.8, 1.6, 3.2, 6.0, 6.0; the waits never
\* decrease and never exceed the cap; a running loop has slept once after
\* each failed attempt, and a loop that gave up made 6 attempts and slept 5
\* times, not after the last one.
C16_BackoffSchedule ==
    /\ pc \in {"embed", "upsert"} =>
          /\ attempts <= MaxRetries
          /\ hist.calls = attempts
          /\ hist.waits = SubSeq(ExpectedWaits, 1, attempts)
    /\ hist.last.outcome = "raised" =>
          /\ hist.last.calls = 6
          /\ hist.waits = ExpectedWaits
    /\ (hist.last.fn = "upsert" /\ hist.last.outcome = "returned") =>
          hist.waits = SubSeq(ExpectedWaits, 1, hist.last.calls - 1)
    /\ \A k \in 1..Len(hist.waits) :
          /\ hist.waits[k] <= BackoffCap
          /\ k > 1 => hist.waits[k - 1] <= hist.waits[k]

\* C16 witness: the upsert loop gave up after the five waits
C16_Witness ==
    /\ hist.last.fn = "upsert"
    /\ hist.last.outcome = "raised"
    /\ hist.waits = ExpectedWaits
    /\ hist.last.calls = 6

\* ---------------------------------------------------------------------------
\* Ordinals inside one file

\* batch sizes at the ends of the range 1..10000
BoundaryBatchSizes == {1, 2, BatchStride - 1, BatchStride}

\* the (batch_index, i) positions a batch size allows, at the ends of a batch
\* and over the first batches
BoundaryPositions(B) ==
    { p \in [bi : 1..3, i : {0, 1, B - 2, B - 1}] : 0 <= p.i /\ p.i < B }

\* C17: for 1 <= batch_size <= 10000 two distinct (batch_index, i) positions
\* of one file have distinct ordinals i + batch_index * 10000; hence two
\* chunks of the same file never get the same id, and the records a run
\* wrote for a file are as many as the chunks it wrote.
C17_OrdinalsDistinctInFile ==
    /\ pc = "call" =>
          \A B \in BoundaryBatchSizes :
             \A p, q \in BoundaryPositions(B) :
                p # q => Ordinal(p.i, p.bi) # Ordinal(q.i, q.bi)
    /\ \A k1, k2 \in DOMAIN hist.idOf :
          (k1[1] = k2[1] /\ k1[2] # k2[2]) => hist.idOf[k1] # hist.idOf[k2]
    /\ run = 1 =>
          \A f \in 1..Len(files) :
             LET written == { k \in DOMAIN hist.idOf :
                                 /\ k[1] = f
                                 /\ << f, BatchOf(k[2]) >> \in hist.sent }
             IN  /\ Cardinality({ hist.idOf[k] : k \in written })
                        = Cardinality(written)
                 /\ \A k \in written : hist.idOf[k] \in DOMAIN index

\* C17 witness: two chunks of equal length of one file went out in two
\* batches and both records are in the index
C17_Witness ==
    /\ run = 1 /\ batch_size = 1
    /\ \E k1, k2 \in DOMAIN hist.idOf :
          /\ k1[1] = k2[1] /\ k1[2] # k2[2]
          /\ << k1[1], BatchOf(k1[2]) >> \in hist.sent
          /\ << k2[1], BatchOf(k2[2]) >> \in hist.sent
          /\ hist.idOf[k1] \in DOMAIN index /\ hist.idOf[k2] \in DOMAIN index
          /\ index[hist.idOf[k1]].metadata.chunk
                = index[hist.idOf[k2]].metadata.chunk

\* ---------------------------------------------------------------------------
\* Ids under failures

\* the ids of the records the running pass has had upserted
WrittenIds ==
    { hist.idOf[k] : k \in { k \in DOMAIN hist.idOf :
                               << k[1], BatchOf(k[2]) >> \in hist.sent } }

\* C18: batch_index counts every non-empty batch pulled from the file,
\* dropped or not; so a pass over the same file with the same settings and
\* batch_size gives every chunk it reaches the id the earlier pass gave it,
\* whatever batches either pass dropped, and after a pass that dropped
\* nothing the ids a later pass writes are among the ids already written
\* and the index gets no other id.
C18_IdsIndependentOfFailures ==
    /\ pc \in {"pull", "embed", "upsert"} =>
          /\ batch_index = Len(hist.starts)
          /\ batch_index = CeilDiv(hist.npulled, batch_size)
    /\ (run = 2 /\ hist.run1.batch_size = batch_size) =>
          /\ \A k \in DOMAIN hist.idOf \cap DOMAIN hist.run1.idOf :
                hist.idOf[k] = hist.run1.idOf[k]
          /\ (hist.run1.read /\ hist.run1.complete) =>
                /\ DOMAIN hist.idOf \subseteq DOMAIN hist.run1.idOf
                /\ WrittenIds \subseteq hist.run1.ids
                /\ DOMAIN index = hist.run1.ids

\* C18 witness: after a pass without failures, a second pass with the same
\* batch_size dropped its first batch and wrote its second
C18_Witness ==
    /\ run = 2 /\ pc = "done"
    /\ hist.run1.batch_size = batch_size
    /\ hist.run1.read /\ hist.run1.complete
    /\ << 1, 1 >> \in hist.failed
    /\ << 1, 2 >> \in hist.sent
    /\ WrittenIds # {}

\* ---------------------------------------------------------------------------
\* Termination

\* ingest_path is one sequential thread: while a step is possible it is taken
\* (a remote call returns or raises, a sleep ends)
\* the runs followed to their end: every kind of root, a.md of every length
\* and b.TXT absent or one character long
FairTexts == { [i \in 1..k |-> "a"] : k \in 0..MaxDocLen }
FairFileSystems ==
    {MissingFs, FileFs(FilePdf, << "a" >>)}
    \cup { DirFs(ta, tb) : ta \in FairTexts \cup {Absent},
                           tb \in {Absent, << "b" >>} }
InitFair == IngestInitWith(FairFileSystems, ValidSettings, BatchSizes)
SpecFair == InitFair /\ [][Next]_vars /\ WF_vars(Next)

Terminated == pc \in {"done", "raised"}

\* the offsets at which the first n chunks of the generator start
FirstStarts(g, n) == [k \in 1..n |-> (k - 1) * g.step]

\* the file whose batches hist.starts holds once file_i has moved past it
LastCompleted ==
    { i \in DOMAIN hist.pulled :
        \A j \in DOMAIN hist.pulled : j <= i }

C19_Counts ==
    /\ hist.calls <= MaxRetries + 1
    /\ hist.last.calls <= MaxRetries + 1
    /\ pc \in {"pull", "embed", "upsert"} =>
          /\ \A b \in 1..Len(hist.starts) :
                Len(hist.starts[b]) \in 1..batch_size
          /\ Flatten(hist.starts) = FirstStarts(chunk_iter, hist.npulled)
          /\ hist.npulled <= NumChunks(fs.text[files[file_i]], settings)
    /\ \A i \in DOMAIN hist.nbatches :
          hist.nbatches[i] =
             CeilDiv(NumChunks(fs.text[files[i]], settings), batch_size)
    /\ pc \in {"file", "done"} =>
          \A i \in LastCompleted :
             /\ Len(hist.starts) = hist.nbatches[i]
             /\ Flatten(hist.starts) =
                   FirstStarts(chunk_iter,
                               NumChunks(fs.text[files[i]], settings))

\* C19: ingest_path ends, by returning or by the scan error, for every file
\* system, batch_size and pattern of remote failures; a file of N chunks is
\* pulled in exactly ceil(N / B) batches whose chunks are the chunks of the
\* file, each once and in order, also after a dropped batch; no batch gets
\* more than 6 embedding calls or more than 6 upsert calls.
C19_Terminates == []C19_Counts /\ <>Terminated

\* C19 witness: ingest_path returned after a file of two chunks went out in
\* two batches, the first of them dropped
C19_Witness ==
    /\ pc = "done" /\ run = 1
    /\ batch_size = 1
    /\ 1 \in DOMAIN hist.nbatches /\ hist.nbatches[1] = 2
    /\ << 1, 1 >> \in hist.failed
    /\ << 1, 2 >> \in hist.sent

====
